---------------------------- MODULE Spec2Model ----------------------------
(***************************************************************************)
(* FloodLoop backend (src/backend/main.py, database.py, schemas.py).       *)
(*                                                                         *)
(* Five specifications over one set of variables:                          *)
(*   SpecScore  the flood risk engine calculate_flood_probability,         *)
(*              applied by the /flood-risk route to a bounded set of       *)
(*              observations;                                              *)
(*   Spec       the relational store (cities, alerts, weather_logs) with   *)
(*              the threadpool routes (def ...) and the event-loop routes  *)
(*              get_weather and check_alerts (async def ...);              *)
(*   SpecPair   two evaluations of one city that overlap;                  *)
(*   SpecCrud   one client that calls every route of the store and waits   *)
(*              for each response;                                         *)
(*   SpecFeed   one /weather-stream generator and its consumer.            *)
(*                                                                         *)
(* Scores and thresholds are kept in tenths of a point (40.0 is 400), the  *)
(* weighted sum in thousandths, so that round(x, 1) is modelled exactly.   *)
(***************************************************************************)
EXTENDS Integers, FiniteSets, Sequences, TLC

VARIABLES
    obs,        \* the five factors handed to calculate_flood_probability
    flood,      \* the FloodRisk it returned, NoFlood before the call
    cities,     \* table cities
    alerts,     \* table alerts
    logs,       \* table weather_logs
    seq,        \* the last primary key handed out in each table
    now,        \* datetime.utcnow(), a counter
    req,        \* the get_weather / check_alerts requests in flight
    due,        \* history: per alert id, the evaluations that had to fire it
    pair,       \* history: the first two evaluations of a city that overlap
    feed,       \* position of weather_stream's event_generator
    events,     \* the events the generator has yielded, in order
    cancelAt,   \* where the consumer's cancellation reached the generator
    fetches     \* history: the fetches the generator started, and how each ended

vars == <<obs, flood, cities, alerts, logs, seq, now, req, due, pair,
          feed, events, cancelAt, fetches>>

scoreVars == <<obs, flood>>
storeVars == <<cities, alerts, logs, seq, now, req, due, pair>>
feedVars  == <<feed, events, cancelAt, fetches>>

Min(a, b) == IF a <= b THEN a ELSE b
Max(a, b) == IF a >= b THEN a ELSE b

(***************************************************************************)
(* Flood risk engine                                                       *)
(***************************************************************************)

\* Values of the factors.  Every value makes each term a whole number of
\* hundredths that is not an exact half of a tenth, where round() depends
\* on the binary representation of the float.
Rain1hVals   == {-5, 0, 10, 17, 20, 25, 40}
Rain3hVals   == {-8, 0, 1, 3, 40, 80}
HumidityVals == {-10, 0, 60, 70, 80, 100}
WindVals     == {-5, 0, 25, 50}
CloudVals    == {-20, 0, 18, 20, 100}

Observations ==
    [rain_1h : Rain1hVals, rain_3h : Rain3hVals, humidity : HumidityVals,
     wind_speed : WindVals, clouds : CloudVals]

NoFlood == [score |-> 0, level |-> "NONE", color |-> "NONE"]

\* min(rain_1h / 20, 1.0) * 40, in thousandths
Rain1hTermUncapped(rain_1h) == 2000 * rain_1h
Rain1hTerm(rain_1h) == Min(2000 * rain_1h, 40000)

\* min(rain_3h / 40, 1.0) * 25
Rain3hTerm(rain_3h) == Min(625 * rain_3h, 25000)

\* min(max(humidity - 60, 0) / 40, 1.0) * 20
HumidityTerm(humidity) == Min(500 * Max(humidity - 60, 0), 20000)

\* min(wind_speed / 25, 1.0) * 10
WindTerm(wind_speed) == Min(400 * wind_speed, 10000)

\* min(clouds / 100, 1.0) * 5
CloudsTerm(clouds) == Min(50 * clouds, 5000)

\* round(x, 1): thousandths to tenths, to nearest, an exact half to even
Round1(x) ==
    LET q == x \div 100
        r == x % 100
    IN  IF r < 50 THEN q
        ELSE IF r > 50 THEN q + 1
        ELSE IF q % 2 = 0 THEN q ELSE q + 1

\* the if / elif / else of lines 149-154
LevelOfStrict(score) ==
    IF score > 650 THEN "HIGH" ELSE IF score > 350 THEN "MEDIUM" ELSE "LOW"
LevelOf(score) ==
    IF score >= 650 THEN "HIGH" ELSE IF score >= 350 THEN "MEDIUM" ELSE "LOW"

ColorOf(level) ==
    IF level = "HIGH" THEN "#ef4444"
    ELSE IF level = "MEDIUM" THEN "#f59e0b" ELSE "#22c55e"

calculate_flood_probability(o) ==
    LET sum   == Rain1hTerm(o.rain_1h) + Rain3hTerm(o.rain_3h)
                   + HumidityTerm(o.humidity) + WindTerm(o.wind_speed)
                   + CloudsTerm(o.clouds)
        score == Round1(Min(sum, 100000))
    IN  [score |-> score, level |-> LevelOf(score),
         color |-> ColorOf(LevelOf(score))]

(***************************************************************************)
(* The store: cities, alerts, weather_logs                                 *)
(*                                                                         *)
(* A route declared "def" runs on a threadpool thread and is one step (one *)
(* session transaction).  A route declared "async def" runs on the event   *)
(* loop: it is suspended only at its await, and a second request's code    *)
(* runs on the loop only while the first is suspended (LoopFree).  Between *)
(* two statements of an async route the threadpool routes can still reach  *)
(* the database, so get_weather and check_alerts are cut at each database  *)
(* statement that another session can observe: the commit in _log_weather, *)
(* the alert query, and the final commit.                                  *)
(*                                                                         *)
(* Primary keys come from a sequence and are not reused.  The clock is     *)
(* read by an evaluation once, when it fires at least one alert.           *)
(*                                                                         *)
(* Spec has one client of the event-loop routes, which sends one request   *)
(* after the other.  SpecPair has two clients, each sending one request,   *)
(* over a database that holds one city with one active alert.              *)
(***************************************************************************)

\* rows ever inserted, over the three tables; readings of the clock
MaxRows == 4
MaxTime == 2

Null == 0                    \* last_triggered IS NULL, city_id None

CityNames     == {"Pune", "Oslo"}
ThresholdVals == {500, 800}
Reqs          == {1, 2}
StatusCodes   == {200, 404, 503}

\* the response of the server error middleware to an exception no route
\* handles
Unhandled == 500

\* the keys handed out so far to all tables together
Rows == seq.city + seq.alert + seq.log

\* the city ids a client sends: every id handed out, and one that was not
CityIds == 1..(seq.city + 1)

\* the requests of the clients whose responses are not kept reference rows
\* that are stored; their other requests change nothing
StoredCityIds  == {c.id : c \in cities}
StoredAlertIds == {a.id : a \in alerts}
NewNames       == {n \in CityNames : ~ \E c \in cities : c.name = n}

\* save_log and city_id of GET /weather: each operand of "save_log and
\* city_id" false once, and every city id, stored or not
GetWeatherArgs == {<<FALSE, 1>>, <<TRUE, Null>>} \cup {<<TRUE, c>> : c \in CityIds}

\* what the weather provider answers in Spec: scores 50.0 and 95.0
WeatherObs ==
    { [rain_1h |-> 20, rain_3h |-> 0,  humidity |-> 80,  wind_speed |-> 0,  clouds |-> 0],
      [rain_1h |-> 20, rain_3h |-> 40, humidity |-> 100, wind_speed |-> 25, clouds |-> 0] }

Idle == [pc |-> "idle", kind |-> "none", city_id |-> Null, save_log |-> FALSE,
         score |-> 0, seen |-> {}, horizon |-> 0, log_id |-> Null,
         status |-> 0, triggered |-> {}]

CityExistsAlways(id) == TRUE
CityExists(id) == \E c \in cities : c.id = id

\* the requests that run an alert evaluation
Evaluates(q) ==
    \/ q.kind = "check_alerts"
    \/ q.kind = "get_weather" /\ q.save_log /\ q.city_id # Null

\* async def: no other request is between two statements on the event loop
LoopFreeThreads(r) == TRUE
LoopFree(r) == \A q \in Reqs \ {r} : req[q].pc \notin {"logged", "queried"}

NoPair == [state |-> "none", city_id |-> Null, left |-> {}, base |-> {},
           scores |-> {}]

\* a second evaluation of the same city starts while the first is in flight;
\* a third one ends the observation
PairOnStart(r, city_id) ==
    IF /\ pair.state # "open"
       /\ \E q \in Reqs \ {r} :
            req[q].pc = "fetch" /\ Evaluates(req[q]) /\ req[q].city_id = city_id
    THEN [state |-> "open", city_id |-> city_id, left |-> Reqs,
          base |-> {a \in alerts : a.city_id = city_id}, scores |-> {}]
    ELSE IF pair.state = "open" /\ pair.city_id = city_id THEN NoPair
    ELSE pair

\* a request of the pair ends without having committed its evaluation
PairOnFailure(r) ==
    IF pair.state = "open" /\ r \in pair.left THEN NoPair ELSE pair

\* a request commits its evaluation
PairOnCommit(r, city_id, score) ==
    IF pair.state # "open" THEN pair
    ELSE IF r \in pair.left /\ pair.left # {r}
    THEN [pair EXCEPT !.left = @ \ {r}, !.scores = @ \cup {score}]
    ELSE IF pair.left = {r} THEN [NoPair EXCEPT !.state = "closed"]
    ELSE IF pair.city_id = city_id THEN NoPair
    ELSE pair

\* the alerts an evaluation of city_id with this score has to fire, among the
\* rows its query could see
Qualifying(rows, city_id, score) ==
    {a \in rows : a.city_id = city_id /\ a.is_active /\ a.threshold <= score}

DueAfter(rows, city_id, score) ==
    [i \in 1..MaxRows |->
        IF \E a \in Qualifying(rows, city_id, score) : a.id = i
        THEN due[i] + 1 ELSE due[i]]

DueOfRows(rows) ==
    [i \in 1..MaxRows |-> IF \E a \in rows : a.id = i THEN due[i] ELSE 0]

\* the routes below leave the calculator's and the stream's state alone
StoreFrame == UNCHANGED <<scoreVars, feedVars>>

(* ---------------- threadpool routes ---------------- *)

\* A threadpool route is called by a client of Reqs, whose response is kept
\* until the client has it, or by anyone else.
Anyone == 0

Free(r) == IF r = Anyone THEN TRUE ELSE req[r].pc = "idle"

\* the response: the status and, from check_alerts, alerts_triggered
Done(status, triggered) ==
    [Idle EXCEPT !.pc = "done", !.status = status, !.triggered = triggered]

\* the route returns, or raises HTTPException(status)
Respond(r, status) == req' = [req EXCEPT ![r] = Done(status, {})]

Answer(r, status) == IF r = Anyone THEN UNCHANGED req ELSE Respond(r, status)

\* POST /cities
save_city(r, name) ==
    /\ Free(r)
    /\ IF \E c \in cities : c.name = name
       THEN UNCHANGED <<cities, seq>>
       ELSE /\ Rows < MaxRows
            /\ cities' = cities \cup
                 {[id |-> seq.city + 1, name |-> name, is_favorite |-> FALSE]}
            /\ seq' = [seq EXCEPT !.city = @ + 1]
    /\ Answer(r, 200)
    /\ UNCHANGED <<alerts, logs, now, due, pair>>
    /\ StoreFrame

\* cascade="all, delete": the rows of a relationship that go with their city
CascadeNone(rows, city_id) == rows
Cascade(rows, city_id) == {x \in rows : x.city_id # city_id}

\* DELETE /cities/{city_id}: both relationships cascade
delete_city(r, city_id) ==
    /\ Free(r)
    /\ IF ~ CityExists(city_id)
       THEN /\ Answer(r, 404)
            /\ UNCHANGED <<cities, alerts, logs, due>>
       ELSE /\ cities' = {c \in cities : c.id # city_id}
            /\ alerts' = Cascade(alerts, city_id)
            /\ logs'   = Cascade(logs, city_id)
            /\ due' = DueOfRows(alerts')
            /\ Answer(r, 200)
    /\ UNCHANGED <<seq, now, pair>>
    /\ StoreFrame

\* PATCH /cities/{city_id}/favorite
toggle_favorite(r, city_id) ==
    /\ Free(r)
    /\ IF ~ CityExists(city_id)
       THEN /\ Answer(r, 404)
            /\ UNCHANGED cities
       ELSE /\ cities' = {IF c.id = city_id
                          THEN [c EXCEPT !.is_favorite = ~ @] ELSE c
                            : c \in cities}
            /\ Answer(r, 200)
    /\ UNCHANGED <<alerts, logs, seq, now, due, pair>>
    /\ StoreFrame

\* GET /history/weather/{city_id}
get_weather_history(r, city_id) ==
    /\ Free(r)
    /\ Answer(r, IF CityExists(city_id) THEN 200 ELSE 404)
    /\ UNCHANGED <<cities, alerts, logs, seq, now, due, pair>>
    /\ StoreFrame

\* AlertCreate.threshold: Field(..., ge=0, le=100), in tenths
AlertCreateValidAny(threshold) == TRUE
AlertCreateValid(threshold) == 0 <= threshold /\ threshold <= 1000

\* POST /alerts: the body is validated before the route runs (422), then
\* Alert(**body.model_dump()) with the column defaults
create_alert(r, city_id, threshold) ==
    /\ Free(r)
    /\ IF ~ AlertCreateValid(threshold)
       THEN /\ Answer(r, 422)
            /\ UNCHANGED <<alerts, seq>>
       ELSE IF ~ CityExists(city_id)
       THEN /\ Answer(r, 404)
            /\ UNCHANGED <<alerts, seq>>
       ELSE /\ Rows < MaxRows
            /\ alerts' = alerts \cup
                 {[id |-> seq.alert + 1, city_id |-> city_id,
                   threshold |-> threshold, is_active |-> TRUE,
                   last_triggered |-> Null, trigger_count |-> 0]}
            /\ seq' = [seq EXCEPT !.alert = @ + 1]
            /\ Answer(r, 200)
    /\ UNCHANGED <<cities, logs, now, due, pair>>
    /\ StoreFrame

\* DELETE /alerts/{alert_id}
delete_alert(r, alert_id) ==
    /\ Free(r)
    /\ IF ~ \E a \in alerts : a.id = alert_id
       THEN /\ Answer(r, 404)
            /\ UNCHANGED <<alerts, due>>
       ELSE /\ alerts' = {a \in alerts : a.id # alert_id}
            /\ due' = DueOfRows(alerts')
            /\ Answer(r, 200)
    /\ UNCHANGED <<cities, logs, seq, now, pair>>
    /\ StoreFrame

(* ---------------- event-loop routes ---------------- *)

\* the client has the response
receive(r) ==
    /\ req[r].pc = "done"
    /\ req' = [req EXCEPT ![r] = Idle]
    /\ UNCHANGED <<cities, alerts, logs, seq, now, due, pair>>
    /\ StoreFrame

\* the object the session loaded for row a
Loaded(rows, a) == CHOOSE s \in rows : s.id = a.id

\* alert.last_triggered = datetime.utcnow(); alert.trigger_count += 1
\* on the object the session loaded, written back by the flush
FireDown(s, t) == [s EXCEPT !.last_triggered = t, !.trigger_count = @ - 1]
FireCountOnly(s, t) == [s EXCEPT !.trigger_count = @ + 1]
Fire(s, t) == [s EXCEPT !.last_triggered = t, !.trigger_count = @ + 1]

\* the flush of db.commit(): UPDATE alerts SET ... WHERE id = ? for every
\* modified object; a row that is gone raises StaleDataError
Stale(fired) == \E s \in fired : ~ \E a \in alerts : a.id = s.id

Flushed(fired, t) ==
    {IF \E s \in fired : s.id = a.id THEN Fire(Loaded(fired, a), t) ELSE a
        : a \in alerts}

\* the rows the evaluation's query could see, as they are now
StillVisible(q) == {a \in alerts : a.id <= q.horizon}

\* commit of an evaluation that modified the objects in fired; response is
\* what the route answers once the commit went through
EvaluationCommit(r, fired, response) ==
    LET q == req[r]
        t == IF fired = {} THEN now ELSE now + 1
    IN  IF Stale(fired)
        THEN /\ Respond(r, Unhandled)
             /\ pair' = PairOnFailure(r)
             /\ UNCHANGED <<alerts, now, due>>
        ELSE /\ t <= MaxTime
             /\ alerts' = Flushed(fired, t)
             /\ now' = t
             /\ due' = DueAfter(StillVisible(q), q.city_id, q.score)
             /\ req' = [req EXCEPT ![r] = response]
             /\ pair' = PairOnCommit(r, q.city_id, q.score)

\* GET /weather up to the await of client.get
get_weather_start(r, save_log, city_id) ==
    /\ req[r].pc = "idle"
    /\ LoopFree(r)
    /\ req' = [req EXCEPT ![r] =
                 [Idle EXCEPT !.pc = "fetch", !.kind = "get_weather",
                              !.save_log = save_log, !.city_id = city_id]]
    /\ pair' = IF save_log /\ city_id # Null THEN PairOnStart(r, city_id)
               ELSE pair
    /\ UNCHANGED <<cities, alerts, logs, seq, now, due>>
    /\ StoreFrame

\* resp.status_code != 200
IsSuccessBelow500(status) == status < 500
IsSuccess(status) == status = 200

\* the await of client.get raises httpx.TimeoutException (timeout=10), which
\* the route does not catch
get_weather_timeout(r) ==
    /\ req[r].pc = "fetch" /\ req[r].kind = "get_weather"
    /\ LoopFree(r)
    /\ Respond(r, Unhandled)
    /\ pair' = IF Evaluates(req[r]) THEN PairOnFailure(r) ELSE pair
    /\ UNCHANGED <<cities, alerts, logs, seq, now, due>>
    /\ StoreFrame

\* lines 256-274: the status test, the score, _log_weather and its commit
get_weather_fetched(r, status, o) ==
    LET q == req[r]
        f == calculate_flood_probability(o)
    IN  /\ q.pc = "fetch" /\ q.kind = "get_weather"
        /\ LoopFree(r)
        /\ IF ~ IsSuccess(status)
           THEN /\ Respond(r, status)
                /\ pair' = IF Evaluates(q) THEN PairOnFailure(r) ELSE pair
                /\ UNCHANGED <<logs, seq>>
           ELSE IF q.save_log /\ q.city_id # Null
           THEN /\ Rows < MaxRows
                /\ logs' = logs \cup
                     {[id |-> seq.log + 1, city_id |-> q.city_id,
                       flood_score |-> f.score, flood_level |-> f.level]}
                /\ seq' = [seq EXCEPT !.log = @ + 1]
                /\ req' = [req EXCEPT ![r] =
                             [q EXCEPT !.pc = "logged", !.score = f.score,
                                       !.log_id = seq.log + 1]]
                /\ UNCHANGED pair
           ELSE /\ Respond(r, 200)
                /\ UNCHANGED <<logs, seq, pair>>
        /\ UNCHANGED <<cities, alerts, now, due>>
        /\ StoreFrame

\* lines 275-278: the filter of the alert query
GetWeatherFilterAnyState(a, city_id, score) ==
    a.city_id = city_id /\ a.threshold <= score
GetWeatherFilter(a, city_id, score) ==
    a.city_id = city_id /\ a.is_active /\ a.threshold <= score

get_weather_query(r) ==
    LET q == req[r]
    IN  /\ q.pc = "logged"
        /\ req' = [req EXCEPT ![r] =
                     [q EXCEPT !.pc = "queried",
                        !.seen = {a \in alerts :
                                     GetWeatherFilter(a, q.city_id, q.score)},
                        !.horizon = seq.alert]]
        /\ UNCHANGED <<cities, alerts, logs, seq, now, due, pair>>
        /\ StoreFrame

\* lines 279-282
get_weather_commit(r) ==
    /\ req[r].pc = "queried" /\ req[r].kind = "get_weather"
    /\ EvaluationCommit(r, req[r].seen, Done(200, {}))
    /\ UNCHANGED <<cities, logs, seq>>
    /\ StoreFrame

\* the query of line 275 or the commit of line 282 raises (the database is
\* locked or gone): the request ends after _log_weather has committed
get_weather_db_error(r) ==
    /\ req[r].pc \in {"logged", "queried"} /\ req[r].kind = "get_weather"
    /\ Respond(r, Unhandled)
    /\ pair' = PairOnFailure(r)
    /\ UNCHANGED <<cities, alerts, logs, seq, now, due>>
    /\ StoreFrame

\* GET /alerts/check/{city_id} up to the await of client.get
check_alerts_start(r, city_id) ==
    /\ req[r].pc = "idle"
    /\ LoopFree(r)
    /\ IF CityExists(city_id)
       THEN /\ req' = [req EXCEPT ![r] =
                         [Idle EXCEPT !.pc = "fetch", !.kind = "check_alerts",
                                      !.city_id = city_id]]
            /\ pair' = PairOnStart(r, city_id)
       ELSE /\ Respond(r, 404)
            /\ UNCHANGED pair
    /\ UNCHANGED <<cities, alerts, logs, seq, now, due>>
    /\ StoreFrame

\* the await of client.get raises httpx.TimeoutException (timeout=10)
check_alerts_timeout(r) ==
    /\ req[r].pc = "fetch" /\ req[r].kind = "check_alerts"
    /\ LoopFree(r)
    /\ Respond(r, Unhandled)
    /\ pair' = PairOnFailure(r)
    /\ UNCHANGED <<cities, alerts, logs, seq, now, due>>
    /\ StoreFrame

\* lines 478-490: the status test, the score and the alert query
check_alerts_fetched(r, status, o) ==
    LET q == req[r]
        f == calculate_flood_probability(o)
    IN  /\ q.pc = "fetch" /\ q.kind = "check_alerts"
        /\ LoopFree(r)
        /\ IF ~ IsSuccess(status)
           THEN /\ Respond(r, status)
                /\ pair' = PairOnFailure(r)
           ELSE /\ req' = [req EXCEPT ![r] =
                             [q EXCEPT !.pc = "queried", !.score = f.score,
                                !.seen = {a \in alerts :
                                    a.city_id = q.city_id /\ a.is_active},
                                !.horizon = seq.alert]]
                /\ UNCHANGED pair
        /\ UNCHANGED <<cities, alerts, logs, seq, now, due>>
        /\ StoreFrame

\* line 493: if flood.score >= alert.threshold
CheckAlertsTestDebounced(s, score) ==
    score >= s.threshold /\ s.last_triggered = Null
CheckAlertsTestStrict(s, score) == score > s.threshold
CheckAlertsTest(s, score) == score >= s.threshold

\* lines 491-503: the loop, the commit, and the response; "city.name" of
\* line 501 reloads the city that the commit expired, and raises
\* ObjectDeletedError when its row is gone
check_alerts_commit(r) ==
    /\ req[r].pc = "queried" /\ req[r].kind = "check_alerts"
    /\ LET triggered == {s \in req[r].seen : CheckAlertsTest(s, req[r].score)}
       IN  EvaluationCommit(r, triggered,
               IF CityExists(req[r].city_id)
               THEN Done(200, {s.id : s \in triggered})
               ELSE Done(Unhandled, {}))
    /\ UNCHANGED <<cities, logs, seq>>
    /\ StoreFrame

\* the commit of line 499 raises: nothing of the request is persisted
check_alerts_db_error(r) ==
    /\ req[r].pc = "queried" /\ req[r].kind = "check_alerts"
    /\ Respond(r, Unhandled)
    /\ pair' = PairOnFailure(r)
    /\ UNCHANGED <<cities, alerts, logs, seq, now, due>>
    /\ StoreFrame

(* ---------------- the store's specification ---------------- *)

\* the database file as the process finds it: empty, or one city with one
\* alert, which may have been deactivated (column is_active)
SeedAlerts(active) ==
    { [id |-> 1, city_id |-> 1, threshold |-> 500, is_active |-> active,
       last_triggered |-> Null, trigger_count |-> 0] }

InitScoreIdle ==
    /\ obs = [rain_1h |-> 0, rain_3h |-> 0, humidity |-> 0, wind_speed |-> 0,
              clouds |-> 0]
    /\ flood = NoFlood

InitFeedIdle ==
    feed = "idle" /\ events = <<>> /\ cancelAt = "none" /\ fetches = <<>>

\* no request in flight, nothing logged, the clock at its origin
InitRequests ==
    /\ logs = {}
    /\ now = 0
    /\ req = [r \in Reqs |-> Idle]
    /\ due = [i \in 1..MaxRows |-> 0]
    /\ pair = NoPair

EmptyStore == cities = {} /\ alerts = {} /\ seq = [city |-> 0, alert |-> 0, log |-> 0]

SeededStore(active) ==
    /\ cities = {[id |-> 1, name |-> "Pune", is_favorite |-> FALSE]}
    /\ seq = [city |-> 1, alert |-> 1, log |-> 0]
    /\ alerts = SeedAlerts(active)

InitStore == InitRequests /\ (EmptyStore \/ SeededStore(FALSE))

Init == InitStore /\ InitScoreIdle /\ InitFeedIdle

Next ==
    \/ \E name \in NewNames : save_city(Anyone, name)
    \/ \E c \in StoredCityIds : delete_city(Anyone, c)
    \/ \E c \in StoredCityIds, th \in ThresholdVals : create_alert(Anyone, c, th)
    \/ \E a \in StoredAlertIds : delete_alert(Anyone, a)
    \/ \E args \in GetWeatherArgs : get_weather_start(1, args[1], args[2])
    \/ \E st \in StatusCodes, o \in WeatherObs : get_weather_fetched(1, st, o)
    \/ get_weather_query(1)
    \/ get_weather_commit(1)
    \/ get_weather_db_error(1)
    \/ get_weather_timeout(1)
    \/ \E c \in CityIds : check_alerts_start(1, c)
    \/ \E st \in StatusCodes, o \in WeatherObs : check_alerts_fetched(1, st, o)
    \/ check_alerts_commit(1)
    \/ check_alerts_db_error(1)
    \/ check_alerts_timeout(1)
    \/ receive(1)

Spec == Init /\ [][Next]_vars

\* two clients with one request each, one city with an active alert
InitPair ==
    /\ InitRequests /\ SeededStore(TRUE)
    /\ InitScoreIdle /\ InitFeedIdle

NextPair ==
    \/ \E th \in ThresholdVals : create_alert(Anyone, 1, th)
    \/ \E a \in StoredAlertIds : delete_alert(Anyone, a)
    \/ \E r \in Reqs : get_weather_start(r, TRUE, 1)
    \/ \E r \in Reqs, st \in StatusCodes, o \in WeatherObs : get_weather_fetched(r, st, o)
    \/ \E r \in Reqs : get_weather_query(r)
    \/ \E r \in Reqs : get_weather_commit(r)
    \/ \E r \in Reqs : get_weather_db_error(r)
    \/ \E r \in Reqs : get_weather_timeout(r)
    \/ \E r \in Reqs : check_alerts_start(r, 1)
    \/ \E r \in Reqs, st \in StatusCodes, o \in WeatherObs : check_alerts_fetched(r, st, o)
    \/ \E r \in Reqs : check_alerts_commit(r)
    \/ \E r \in Reqs : check_alerts_db_error(r)
    \/ \E r \in Reqs : check_alerts_timeout(r)

SpecPair == InitPair /\ [][NextPair]_vars

\* one client that calls every route and waits for each response
CreateThresholds == {-1, 0, 1000, 1001}

\* with these thresholds every score fires the same alerts: one answer of the
\* provider, score 50.0
CrudObs == {o \in WeatherObs : calculate_flood_probability(o).score = 500}

InitCrud == InitStore /\ InitScoreIdle /\ InitFeedIdle

NextCrud ==
    \/ \E name \in CityNames : save_city(1, name)
    \/ \E c \in CityIds : delete_city(1, c)
    \/ \E c \in CityIds : toggle_favorite(1, c)
    \/ \E c \in CityIds : get_weather_history(1, c)
    \/ \E c \in CityIds, th \in CreateThresholds : create_alert(1, c, th)
    \/ \E a \in 1..(seq.alert + 1) : delete_alert(1, a)
    \/ \E c \in CityIds : get_weather_start(1, TRUE, c)
    \/ \E st \in StatusCodes, o \in CrudObs : get_weather_fetched(1, st, o)
    \/ get_weather_query(1)
    \/ get_weather_commit(1)
    \/ get_weather_db_error(1)
    \/ get_weather_timeout(1)
    \/ \E c \in CityIds : check_alerts_start(1, c)
    \/ \E st \in StatusCodes, o \in CrudObs : check_alerts_fetched(1, st, o)
    \/ check_alerts_commit(1)
    \/ check_alerts_db_error(1)
    \/ check_alerts_timeout(1)
    \/ receive(1)

SpecCrud == InitCrud /\ [][NextCrud]_vars

(***************************************************************************)
(* Alert evaluation                                                        *)
(***************************************************************************)

\* the step in which request r commits its evaluation
EvalStep(r) ==
    req[r].pc = "queried" /\ req'[r].pc = "done" /\ req'[r].status = 200

\* the alerts the evaluation of request q has to fire
MustFire(q) == Qualifying(StillVisible(q), q.city_id, q.score)

\* C1: one evaluation of a city with score s adds exactly 1 to trigger_count
\* and writes the evaluation time to last_triggered of every active alert of
\* that city with threshold <= s, and leaves every other alert (inactive,
\* threshold > s, another city) as it was.
EvaluationFrame ==
    [][\A r \in Reqs :
         EvalStep(r) =>
           /\ MustFire(req[r]) # {} => now' = now + 1
           /\ alerts' =
                {IF a \in MustFire(req[r])
                 THEN [a EXCEPT !.trigger_count = @ + 1, !.last_triggered = now']
                 ELSE a : a \in alerts}]_vars

\* thresholds 30 and 80, both active, same city: only the first has fired
EvaluationFrameWitness ==
    /\ req[1].pc = "done" /\ req[1].status = 200
    /\ \E a, b \in alerts :
         /\ a.city_id = b.city_id /\ a.is_active /\ b.is_active
         /\ a.threshold = 500 /\ a.trigger_count = 1 /\ a.last_triggered = now
         /\ b.threshold = 800 /\ b.trigger_count = 0 /\ b.last_triggered = Null

\* the alerts a get_weather request that wrote its snapshot still owes
Owed(q) ==
    IF q.pc = "logged" THEN Qualifying(alerts, q.city_id, q.score)
    ELSE MustFire(q)

\* C2: when a get_weather request that wrote a snapshot ends, either the
\* snapshot is not in weather_logs or every qualifying active alert of the
\* city has been updated for it.
LogAndEvaluateAtomic ==
    [][\A r \in Reqs :
         (req[r].log_id # Null /\ req'[r].pc = "done") =>
            \/ ~ \E l \in logs' : l.id = req[r].log_id
            \/ \A a \in Owed(req[r]) :
                 \E b \in alerts' :
                    b.id = a.id /\ b.trigger_count = a.trigger_count + 1]_vars

\* C3: two evaluations of a city overlap and both commit: an alert that was
\* active with its threshold <= both scores has its trigger_count raised by
\* 2 over its value when the second one started, and last_triggered is the
\* time of the later commit.
ConcurrentAdditive ==
    [][\A r \in Reqs :
         (pair.state = "open" /\ pair.left = {r} /\ EvalStep(r)) =>
            \A b \in pair.base :
               (/\ b.is_active
                /\ \A sc \in pair.scores \cup {req[r].score} : b.threshold <= sc)
               => \A a \in alerts' :
                     a.id = b.id =>
                        /\ a.trigger_count = b.trigger_count + 2
                        /\ a.last_triggered = now']_vars

ConcurrentAdditiveWitness ==
    /\ pair.state = "closed"
    /\ \A r \in Reqs : req[r].pc = "done" /\ req[r].status = 200
    /\ \E a \in alerts : a.trigger_count = 2 /\ a.last_triggered = now

\* C4: trigger_count of an alert is the number of evaluations of its city
\* in which it was active with threshold <= score, however many in a row.
NoDebounce == \A a \in alerts : a.trigger_count = due[a.id]

NoDebounceWitness ==
    \E a \in alerts : a.trigger_count >= 2 /\ due[a.id] = a.trigger_count

\* C15: trigger_count is 0 when the alert is created and, while the alert
\* is stored, no step of any route makes it smaller; it is never negative.
TriggerCountMonotonic ==
    [][/\ \A a \in alerts : a.trigger_count >= 0
       /\ \A b \in alerts' :
            IF \E a \in alerts : a.id = b.id
            THEN \A a \in alerts :
                    a.id = b.id => b.trigger_count >= a.trigger_count
            ELSE b.trigger_count = 0]_vars

\* an alert has gone from 0 to 2 and a later one is still at 0
TriggerCountMonotonicWitness ==
    \E a, b \in alerts :
        a.trigger_count = 2 /\ b.id > a.id /\ b.trigger_count = 0

(***************************************************************************)
(* Failures of the one-shot calls                                          *)
(***************************************************************************)

\* C11: a one-shot call (get_weather, check_alerts) whose upstream fetch
\* times out ends with an upstream failure and never with the response to
\* an unhandled exception.
TimeoutIsFetchFailure ==
    [][\A r \in Reqs :
         (req[r].pc = "fetch" /\ req'[r].pc = "done") =>
            req'[r].status # Unhandled]_vars

\* C12: when the upstream fetch of get_weather or check_alerts returns a
\* status other than 200, the call ends with that status, no snapshot is
\* appended and no alert is modified.
UpstreamFailureUnchanged ==
    [][\A r \in Reqs, st \in StatusCodes \ {200}, o \in WeatherObs :
         /\ req[r].pc = "fetch" /\ req'[r].pc # "fetch"
         /\ get_weather_fetched(r, st, o) \/ check_alerts_fetched(r, st, o)
         =>
            /\ req'[r].pc = "done" /\ req'[r].status = st
            /\ UNCHANGED <<cities, alerts, logs, seq>>]_vars

\* the provider answered 503 while an alert that any score fires was stored
UpstreamFailureUnchangedWitness ==
    /\ req[1].pc = "done" /\ req[1].status = 503
    /\ \E a \in alerts : a.is_active /\ a.threshold = 0 /\ a.trigger_count = 0

(***************************************************************************)
(* Validation and missing rows                                             *)
(***************************************************************************)

\* the persistent state: the three tables and their key sequences
Tables == <<cities, alerts, logs, seq>>

\* C13: POST /alerts with a threshold outside [0, 100] is answered 422 and
\* changes no table, and every stored alert has 0 <= threshold <= 100.
ThresholdInRange ==
    [][/\ \A a \in alerts \cup alerts' : 0 <= a.threshold /\ a.threshold <= 1000
       /\ \A r \in Reqs :
            (req[r].pc = "idle" /\ req'[r].pc = "done" /\ req'[r].status = 422)
               => UNCHANGED Tables]_vars

\* a creation was rejected while alerts at both ends of the range are stored
ThresholdInRangeWitness ==
    /\ req[1].pc = "done" /\ req[1].status = 422
    /\ \E a, b \in alerts : a.threshold = 0 /\ b.threshold = 1000

\* C14: create_alert, check_alerts, delete_city, toggle_favorite and
\* get_weather_history for a city that is not stored, and delete_alert for an
\* alert that is not stored, are answered 404 and change no table.
NotFoundUnchanged ==
    [][\A r \in Reqs :
         req[r].pc = "idle" /\ req'[r].pc # "idle" =>
         /\ \A c \in CityIds \ StoredCityIds :
              ( \/ delete_city(r, c)
                \/ toggle_favorite(r, c)
                \/ get_weather_history(r, c)
                \/ check_alerts_start(r, c)
                \/ \E th \in {0, 1000} : create_alert(r, c, th) )
              => /\ req'[r].pc = "done" /\ req'[r].status = 404
                 /\ UNCHANGED Tables
         /\ \A a \in (1..(seq.alert + 1)) \ StoredAlertIds :
              delete_alert(r, a)
              => /\ req'[r].pc = "done" /\ req'[r].status = 404
                 /\ UNCHANGED Tables]_vars

\* a request was answered 404 after a city was deleted, with a favourite
\* city, a fired alert and a snapshot stored
NotFoundUnchangedWitness ==
    /\ req[1].pc = "done" /\ req[1].status = 404
    /\ seq.city > Cardinality(cities)
    /\ \E c \in cities : c.is_favorite
    /\ \E a \in alerts : a.trigger_count > 0
    /\ logs # {}

\* C16: the step that deletes city c removes exactly the alerts and the
\* snapshots with city_id = c and leaves those of every other city as they
\* were; in every other step each stored snapshot stays as it is.
CascadeDelete ==
    [][/\ \A c \in StoredCityIds :
            c \notin {x.id : x \in cities'} =>
               /\ alerts' = {a \in alerts : a.city_id # c}
               /\ logs' = {l \in logs : l.city_id # c}
       /\ \A l \in logs :
            \/ l \in logs'
            \/ l.city_id \in StoredCityIds \ {x.id : x \in cities'}]_vars

\* a snapshot went with its city while the snapshot of another stored city
\* remains
CascadeDeleteWitness ==
    /\ seq.log > Cardinality(logs)
    /\ \E l \in logs : l.city_id \in StoredCityIds

(***************************************************************************)
(* The calculator route                                                    *)
(***************************************************************************)

\* GET /flood-risk: the five query parameters go to the engine unchecked
flood_risk_calculator ==
    /\ flood = NoFlood
    /\ flood' = calculate_flood_probability(obs)
    /\ UNCHANGED <<obs, storeVars, feedVars>>

InitScore ==
    /\ obs \in Observations
    /\ flood = NoFlood
    /\ InitStore /\ cities = {}
    /\ InitFeedIdle

NextScore == flood_risk_calculator

SpecScore == InitScore /\ [][NextScore]_vars

Computed == flood # NoFlood

\* every negative factor replaced by 0
NonNegative(o) ==
    [rain_1h |-> Max(o.rain_1h, 0), rain_3h |-> Max(o.rain_3h, 0),
     humidity |-> Max(o.humidity, 0), wind_speed |-> Max(o.wind_speed, 0),
     clouds |-> Max(o.clouds, 0)]

\* C7: a negative factor counts like 0: the score of an observation is the
\* score of the observation with its negative factors set to 0.
NegativeLikeZero ==
    Computed => flood.score = calculate_flood_probability(NonNegative(obs)).score

\* C8: the score of every observation the engine accepts is in [0, 100].
ScoreInRange == Computed => 0 <= flood.score /\ flood.score <= 1000

\* C9: the level follows from the rounded score with inclusive lower
\* bounds, HIGH from 65.0, MEDIUM from 35.0, LOW below, and each level has
\* its own colour.
LevelFromScore ==
    Computed =>
       /\ flood.level = "HIGH" <=> flood.score >= 650
       /\ flood.level = "MEDIUM" <=> (350 <= flood.score /\ flood.score < 650)
       /\ flood.level = "LOW" <=> flood.score < 350
       /\ flood.color = "#ef4444" <=> flood.level = "HIGH"
       /\ flood.color = "#f59e0b" <=> flood.level = "MEDIUM"
       /\ flood.color = "#22c55e" <=> flood.level = "LOW"

LevelFromScoreWitness ==
    Computed /\ flood.score = 650 /\ flood.level = "HIGH"

\* C10: a term is capped before it is weighted: alone, rain_1h >= 20 gives
\* 40.0, rain_3h >= 40 gives 25.0 and wind_speed >= 25 gives 10.0; and
\* rain_1h = 25 with humidity 60 and nothing else gives 40.0, MEDIUM.
Only(o, factor) ==
    \A g \in {"rain_1h", "rain_3h", "humidity", "wind_speed", "clouds"} \ {factor} :
        o[g] = 0

CappedBeforeWeighting ==
    Computed =>
       /\ (Only(obs, "rain_1h") /\ obs.rain_1h >= 20) => flood.score = 400
       /\ (Only(obs, "rain_3h") /\ obs.rain_3h >= 40) => flood.score = 250
       /\ (Only(obs, "wind_speed") /\ obs.wind_speed >= 25) => flood.score = 100
       /\ obs = [rain_1h |-> 25, rain_3h |-> 0, humidity |-> 60,
                 wind_speed |-> 0, clouds |-> 0]
            => flood.score = 400 /\ flood.level = "MEDIUM"

CappedBeforeWeightingWitness ==
    Computed /\ Only(obs, "rain_1h") /\ obs.rain_1h = 40 /\ flood.score = 400

(***************************************************************************)
(* The live feed: weather_stream's event_generator and its consumer        *)
(***************************************************************************)

MaxEvents == 3

\* what "await client.get" and resp.json() raise, and what the consumer's
\* disconnect raises at an await
FetchErrors == {"ReadTimeout", "ConnectError", "JSONDecodeError"}

\* except Exception: asyncio.CancelledError is a BaseException
ExceptNothing(e) == FALSE
ExceptEverything(e) == TRUE
ExceptException(e) == e # "CancelledError"

\* "await client.get" is entered, and it ends: with a response of some
\* status, by raising, or (status 200) with resp.json() raising
Pending == [status |-> 0, raised |-> "pending"]

Started == fetches' = Append(fetches, Pending)

Ended(status, raised) ==
    fetches' = [fetches EXCEPT ![Len(fetches)] =
                   [status |-> status, raised |-> raised]]

DataEvent(o) ==
    [kind |-> "data", flood_risk |-> calculate_flood_probability(o),
     error |-> ""]
ErrorEventAsData(msg) == [kind |-> "data", flood_risk |-> NoFlood, error |-> msg]
ErrorEvent(msg) == [kind |-> "error", flood_risk |-> NoFlood, error |-> msg]

\* the generator yields an event and is suspended at the yield
Yield(e) ==
    /\ events' = Append(events, e)
    /\ feed' = "yield"

\* an exception e is raised inside the try of lines 315-348
Raise(e) ==
    IF ExceptException(e) THEN Yield(ErrorEvent(e))
    ELSE feed' = "closed" /\ UNCHANGED events

FeedFrame == UNCHANGED <<scoreVars, storeVars>>

\* the StreamingResponse starts the generator: up to the first await
stream_open ==
    /\ feed = "idle"
    /\ feed' = "fetch"
    /\ Started
    /\ UNCHANGED <<events, cancelAt>>
    /\ FeedFrame

\* lines 320-344: status 200
fetch_ok(o) ==
    /\ feed = "fetch" /\ Len(events) < MaxEvents
    /\ Yield(DataEvent(o))
    /\ Ended(200, "none")
    /\ UNCHANGED cancelAt
    /\ FeedFrame

\* lines 345-346: any other status
fetch_status_error ==
    /\ feed = "fetch" /\ Len(events) < MaxEvents
    /\ Yield(ErrorEvent("API error"))
    /\ Ended(503, "none")
    /\ UNCHANGED cancelAt
    /\ FeedFrame

\* lines 347-348: the request or the decoding raises
fetch_raises(e) ==
    /\ feed = "fetch" /\ Len(events) < MaxEvents
    /\ Raise(e)
    /\ Ended(IF e = "JSONDecodeError" THEN 200 ELSE 0, e)
    /\ UNCHANGED cancelAt
    /\ FeedFrame

\* the consumer takes the event; the generator runs on to line 349
resume ==
    /\ feed = "yield"
    /\ feed' = "sleep"
    /\ UNCHANGED <<events, cancelAt, fetches>>
    /\ FeedFrame

\* asyncio.sleep(interval) returns
wake ==
    /\ feed = "sleep"
    /\ feed' = "fetch"
    /\ Started
    /\ UNCHANGED <<events, cancelAt>>
    /\ FeedFrame

\* the consumer disconnects while the generator awaits client.get:
\* CancelledError is raised inside the try
cancel_in_fetch ==
    /\ feed = "fetch" /\ cancelAt = "none"
    /\ cancelAt' = "fetch"
    /\ Raise("CancelledError")
    /\ Ended(0, "CancelledError")
    /\ FeedFrame

\* ... while it sleeps (line 349, outside the try), or while it is suspended
\* at a yield (GeneratorExit, a BaseException)
cancel_elsewhere ==
    /\ feed \in {"sleep", "yield"} /\ cancelAt = "none"
    /\ cancelAt' = feed
    /\ feed' = "closed"
    /\ UNCHANGED <<events, fetches>>
    /\ FeedFrame

InitFeed ==
    /\ InitFeedIdle
    /\ InitScoreIdle
    /\ InitStore /\ cities = {}

NextFeed ==
    \/ stream_open
    \/ \E o \in WeatherObs : fetch_ok(o)
    \/ fetch_status_error
    \/ \E e \in FetchErrors : fetch_raises(e)
    \/ resume
    \/ wake
    \/ cancel_in_fetch
    \/ cancel_elsewhere

SpecFeed == InitFeed /\ [][NextFeed]_vars

\* C5: a fetch that fails (status other than 200, or an exception) emits one
\* error event and the loop goes on to the wait and to the next fetch; the
\* generator ends only by the consumer's cancellation.
FailureNotFatal ==
    [][/\ feed' = "closed" => cancelAt' # "none"
       /\ (feed = "fetch" /\ cancelAt' = "none" /\ feed' # "fetch") =>
             feed' = "yield" /\ Len(events') = Len(events) + 1
       /\ (feed = "yield" /\ cancelAt' = "none") => feed' = "sleep"
       /\ (feed = "sleep" /\ cancelAt' = "none") => feed' = "fetch"]_vars

\* a failed cycle was followed by another cycle
FailureNotFatalWitness ==
    /\ cancelAt = "none"
    /\ Len(events) >= 3
    /\ events[1].kind = "error" /\ events[1].error = "API error"
    /\ events[2].kind = "error" /\ events[2].error = "ReadTimeout"
    /\ events[3].kind = "data"

\* C6: cancelling the feed while it awaits the fetch or while it sleeps ends
\* the generator, and no event is emitted at or after the cancellation.
CancelSilent ==
    [][/\ cancelAt' # "none" => events' = events
       /\ (cancelAt = "none" /\ cancelAt' # "none") => feed' = "closed"
       /\ feed = "closed" => feed' = "closed"]_vars

CancelSilentWitness ==
    /\ feed = "closed" /\ cancelAt = "fetch"
    /\ Len(events) >= 1

\* C17: the generator yields one event per fetch, in the order of the
\* fetches: the k-th event is the one of the k-th fetch, a data event iff that
\* fetch answered 200 and the decoding and scoring did not raise, and a fetch
\* starts only when every earlier fetch has its event and the generator has
\* slept since.
OneEventPerCycle ==
    [][/\ Len(events) = IF feed = "fetch" \/ cancelAt = "fetch"
                        THEN Len(fetches) - 1 ELSE Len(fetches)
       /\ \A k \in 1..Len(events) :
            events[k].kind = "data" <=>
               (fetches[k].status = 200 /\ fetches[k].raised = "none")
       /\ SubSeq(events', 1, Len(events)) = events
       /\ Len(events') <= Len(events) + 1
       /\ Len(fetches') > Len(fetches) =>
            /\ Len(events) = Len(fetches)
            /\ feed = "sleep" \/ fetches = <<>>]_vars

\* three cycles: a data event, then the events of a status and of a timeout
OneEventPerCycleWitness ==
    /\ Len(events) = 3 /\ Len(fetches) = 3 /\ feed = "sleep"
    /\ events[1].kind = "data"
    /\ events[2].error = "API error" /\ fetches[2].status = 503
    /\ events[3].error = "ReadTimeout" /\ fetches[3].raised = "ReadTimeout"

\* C18: the filter of get_weather's query and the loop test of check_alerts
\* select the same alerts of a city for a score, both commits write the same
\* update to the alerts they selected, and the alerts_triggered of a
\* check_alerts response names exactly the alerts its commit modified.
PathsAgree ==
    [][/\ \A c \in CityIds, o \in WeatherObs :
            LET score == calculate_flood_probability(o).score
                active == {a \in alerts : a.city_id = c /\ a.is_active}
            IN  {a \in alerts : GetWeatherFilter(a, c, score)} =
                {a \in active : CheckAlertsTest(a, score)}
       /\ \A r \in Reqs :
            (get_weather_commit(r) \/ check_alerts_commit(r))
               /\ req'[r].status = 200 =>
            LET q == req[r]
                selected == {s \in q.seen : s.threshold <= q.score}
            IN  /\ alerts' = Flushed(selected, now')
                /\ selected # {} => now' = now + 1
                /\ q.kind = "check_alerts" =>
                     req'[r].triggered = {a.id : a \in alerts \ alerts'}]_vars

\* the seed alert, whose threshold is the lower score, was fired once by a
\* check_alerts and once by a get_weather
PathsAgreeWitness ==
    /\ req[1].pc = "done" /\ req[1].status = 200 /\ req[1].triggered = {1}
    /\ req[2].pc = "done" /\ req[2].status = 200 /\ req[2].triggered = {}
    /\ \E a \in alerts : a.id = 1 /\ a.threshold = 500 /\ a.trigger_count = 2
                         /\ a.last_triggered = 2

\* C19: every stored alert and every stored snapshot has the id of a stored
\* city in its city_id.
ReferencesExist ==
    /\ \A a \in alerts : a.city_id \in StoredCityIds
    /\ \A l \in logs : l.city_id \in StoredCityIds

\* C20: an alert has a last_triggered iff its trigger_count is positive: it
\* is created with neither, and a step that changes one of the two fields of
\* an alert changes the other too.
TriggerFieldsTogether ==
    [][/\ \A a \in alerts \cup alerts' :
            (a.last_triggered # Null) <=> (a.trigger_count > 0)
       /\ \A a \in alerts' :
            (~ \E b \in alerts : b.id = a.id) =>
               a.last_triggered = Null /\ a.trigger_count = 0
       /\ \A a \in alerts, b \in alerts' :
            a.id = b.id =>
               ((a.last_triggered # b.last_triggered) <=>
                (a.trigger_count # b.trigger_count))]_vars

\* an alert fired twice, beside one created later and never fired
TriggerFieldsTogetherWitness ==
    \E a, b \in alerts :
        /\ a.trigger_count = 2 /\ a.last_triggered = 2
        /\ b.id > a.id /\ b.trigger_count = 0 /\ b.last_triggered = Null
        /\ req[1].pc = "done" /\ req[1].status = 200

=============================================================================
